---- MODULE Spec2Model ----
(***************************************************************************)
(* The per-object queueing of kopf/reactor/queueing.py: one watcher        *)
(* (the dispatcher) reads the event stream and routes every event to the   *)
(* queue of its object; one worker per object consumes the queue, batches  *)
(* bursts, and calls the handler.  The workers are jobs of an aiojobs      *)
(* scheduler with a limit; the event loop is asyncio, so every action      *)
(* below is the code between two suspension points of one task.            *)
(***************************************************************************)
EXTENDS Integers, Sequences, FiniteSets, TLC

\* ---- bounds of the model ----
MaxEvents == 3        \* events the stream yields in one run
MaxPolls == 2         \* worker_exit_timeout, counted in sleeps of the poll loop

\* ---- program constants ----
EOS == 0                   \* the end-of-stream marker; real events are 1, 2, ...

Keys == {"a", "b"}         \* the uids of the objects in the stream
NoKey == "-"               \* the key of a job that does not exist yet
Limits == {1, 2}           \* the configured limits of the scheduler
Events == 1 .. MaxEvents
Jobs == 1 .. MaxEvents     \* a job (and its queue) is created by an event, at most
NoQueue == 0               \* the key has no entry in `queues`

VARIABLES
    queue_workers_limit,  \* config.WorkersConfig.queue_workers_limit, fixed in a run
    wpc,        \* the watcher: "stream", "deplete", "finally", "done"
    raising,    \* the exception travelling through the watcher's finally
    outcome,    \* how the watcher ended: "returned", "error", "cancelled", or
                \* "interrupted" (cancelled out of the shielded close)
    produced,   \* number of events the stream has yielded
    queues,     \* the dict `queues`: key -> queue object (the id of its job)
    items,      \* the content of every queue object
    spawned,    \* number of queues/jobs created so far
    jkey,       \* worker argument `key`
    jpc,        \* position of every job
    jqueue,     \* worker local `queue`
    jevent,     \* worker local `event`
    jstop,      \* worker local `shouldstop`
    pending,    \* the scheduler's queue of accepted, not started jobs
    closing,    \* scheduler.close(): "none", "gather" (awaiting the jobs), "closed"
    elapsed,    \* sleeps done by the poll loop of _wait_for_depletion
    \* ---- history (never read by the actions' guards) ----
    enqueued,   \* per key, the events the watcher has put
    handled,    \* per key, the events the handler was called with
    got,        \* per job, the items received in the current pass
    jfailed,    \* per job, its latest call of the handler raised an Exception
    dropped,    \* events replaced by a newer real event at line 130
    jexit,      \* how every job ended
    depleted,   \* _wait_for_depletion was entered
    warned,     \* the keys named by the warning, {} if none logged
    forced      \* scheduler.close() cancelled at least one job

vars == << queue_workers_limit, wpc, raising, outcome, produced, queues, items,
           spawned, jkey, jpc, jqueue, jevent, jstop, jfailed, pending, closing,
           elapsed, enqueued, handled,
           got, dropped, jexit, depleted, warned, forced >>

watcherVars == << queue_workers_limit, wpc, raising, outcome, elapsed, depleted, warned >>
streamVars == << produced, enqueued >>
localVars == << jqueue, jevent, jstop, got >>

poolVars == << jkey, jpc, pending, jexit >>

\* ---- the scheduler (aiojobs) as the watcher uses it ----

\* a job whose task exists and has not finished
Live(j) == jpc[j] \notin {"none", "pending", "done"}

\* scheduler.active_count
ActiveCount == Cardinality({j \in Jobs : Live(j)})

ShouldStart_Unlimited(n) == TRUE

ShouldStart_Serial(n) == n < 1

\* spawn() starts the job at once only below the limit
ShouldStart(n) == n < queue_workers_limit

\* ---- the watcher's routing ----

HasQueue_Never(k) == FALSE

\* queues[key] does not raise KeyError
HasQueue(k) == queues[k] # NoQueue

SpawnNeeded_Always(had) == TRUE

\* the spawn is inside `except KeyError`
SpawnNeeded(had) == ~had

\* `del queues[key]`, KeyError ignored
DelKey(t, k) == [t EXCEPT ![k] = NoQueue]

\* ---- the worker's batching ----

NextCandidate_Overwrite(prev, next) == next

NextCandidate_KeepFirst(prev, next) == prev

\* event = prev_event if next_event is EOS else next_event
NextCandidate(prev, next) == IF next = EOS THEN prev ELSE next

BreakOnEOS_Never(e) == FALSE

\* `if event is EOS: break`
BreakOnEOS(e) == e = EOS

Init ==
    /\ queue_workers_limit \in Limits
    /\ wpc = "stream"
    /\ raising = "none"
    /\ outcome = "none"
    /\ produced = 0
    /\ queues = [k \in Keys |-> NoQueue]
    /\ items = [j \in Jobs |-> << >>]
    /\ spawned = 0
    /\ jkey = [j \in Jobs |-> NoKey]
    /\ jpc = [j \in Jobs |-> "none"]
    /\ jqueue = [j \in Jobs |-> NoQueue]
    /\ jevent = [j \in Jobs |-> EOS]
    /\ jstop = [j \in Jobs |-> FALSE]
    /\ jfailed = [j \in Jobs |-> FALSE]
    /\ pending = << >>
    /\ closing = "none"
    /\ elapsed = 0
    /\ enqueued = [k \in Keys |-> << >>]
    /\ handled = [k \in Keys |-> << >>]
    /\ got = [j \in Jobs |-> << >>]
    /\ dropped = {}
    /\ jexit = [j \in Jobs |-> "none"]
    /\ depleted = FALSE
    /\ warned = {}
    /\ forced = FALSE

\* ---- the watcher ----

\* the keys that have a queue
TableKeys == {k \in Keys : queues[k] # NoQueue}

\* scheduler.spawn(worker(...)): the job runs at once below the limit, waits otherwise
Spawn_Blocking(j, k) ==
    /\ ShouldStart(ActiveCount)
    /\ jkey' = [jkey EXCEPT ![j] = k]
    /\ jpc' = [jpc EXCEPT ![j] = "created"]
    /\ pending' = pending

Spawn(j, k) ==
    /\ jkey' = [jkey EXCEPT ![j] = k]
    /\ IF ShouldStart(ActiveCount)
          THEN /\ jpc' = [jpc EXCEPT ![j] = "created"]
               /\ pending' = pending
          ELSE /\ jpc' = [jpc EXCEPT ![j] = "pending"]
               /\ pending' = Append(pending, j)

\* one iteration of `async for event in infinite_watch(...)`, for an event of key k
Dispatch(k) ==
    /\ wpc = "stream"
    /\ produced < MaxEvents
    /\ LET e == produced + 1
           had == HasQueue(k)
           j == spawned + 1
       IN  /\ produced' = e
           /\ enqueued' = [enqueued EXCEPT ![k] = Append(@, e)]
           /\ IF had
                 THEN /\ items' = [items EXCEPT ![queues[k]] = Append(@, e)]
                      /\ queues' = queues
                 ELSE /\ items' = [items EXCEPT ![j] = << e >>]
                      /\ queues' = [queues EXCEPT ![k] = j]
           /\ IF SpawnNeeded(had)
                 THEN Spawn(j, k)
                 ELSE UNCHANGED << jkey, jpc, pending >>
           /\ spawned' = IF had /\ ~SpawnNeeded(had) THEN spawned ELSE j
    /\ UNCHANGED << watcherVars, localVars, jfailed, closing, handled, dropped,
                    jexit, forced >>

\* `finally: await asyncio.shield(scheduler.close())`: close() drops the waiting
\* jobs and cancels every job.  A job whose coroutine has not run a step ends
\* there, without running its body; the others are resumed with CancelledError.
\* A cancelled coroutine only runs its finally, so its locals are dropped here.
\* (close() is the first step of a new task; what the workers do before that step
\* they can as well do before the watcher enters the finally, so it is taken here.)
PoolClose ==
    /\ closing' = "gather"
    /\ pending' = << >>
    /\ jpc' = [j \in Jobs |->
                 CASE jpc[j] \in {"pending", "created"} -> "done"
                   [] jpc[j] = "handler" -> "handler_cancelled"
                   [] jpc[j] \in {"none", "done"} -> jpc[j]
                   [] OTHER -> "cancelled"]
    /\ jexit' = [j \in Jobs |->
                 IF jpc[j] \in {"pending", "created"} THEN "unstarted" ELSE jexit[j]]
    /\ forced' = (forced \/ \E j \in Jobs : jpc[j] \notin {"none", "done"})
    /\ jqueue' = [j \in Jobs |-> NoQueue]
    /\ jevent' = [j \in Jobs |-> EOS]
    /\ jstop' = [j \in Jobs |-> FALSE]
    /\ jfailed' = [j \in Jobs |-> FALSE]
    /\ got' = [j \in Jobs |-> << >>]

PollAgain_NoTimeout(el) == TableKeys # {} /\ ActiveCount > 0

\* the condition of the poll loop of _wait_for_depletion
PollAgain(el) == TableKeys # {} /\ ActiveCount > 0 /\ el < MaxPolls

AfterPoll_NoWarning(el) ==
    IF PollAgain(el)
       THEN /\ wpc' = "deplete"
            /\ UNCHANGED << warned, closing, raising, pending, jpc, jexit, forced,
                            localVars, jfailed >>
       ELSE /\ wpc' = "finally"
            /\ warned' = {}
            /\ raising' = "none"
            /\ PoolClose

\* the poll loop from its condition on: sleep again, or warn and enter the finally
AfterPoll(el) ==
    IF PollAgain(el)
       THEN /\ wpc' = "deplete"
            /\ UNCHANGED << warned, closing, raising, pending, jpc, jexit, forced,
                            localVars, jfailed >>
       ELSE /\ wpc' = "finally"
            /\ warned' = TableKeys
            /\ raising' = "none"
            /\ PoolClose

StreamEnd_MarkerTwice ==
    /\ wpc = "stream"
    /\ items' = [j \in Jobs |-> IF \E k \in Keys : queues[k] = j
                                   THEN items[j] \o << EOS, EOS >> ELSE items[j]]
    /\ depleted' = TRUE
    /\ elapsed' = 0
    /\ AfterPoll(0)
    /\ UNCHANGED << queue_workers_limit, outcome, streamVars, queues, spawned,
                    jkey, handled, dropped >>

StreamEnd_NoMarker ==
    /\ wpc = "stream"
    /\ items' = items
    /\ depleted' = TRUE
    /\ elapsed' = 0
    /\ AfterPoll(0)
    /\ UNCHANGED << queue_workers_limit, outcome, streamVars, queues, spawned,
                    jkey, handled, dropped >>

\* the stream ends: _wait_for_depletion puts EOS onto every queue of the table
StreamEnd ==
    /\ wpc = "stream"
    /\ items' = [j \in Jobs |-> IF \E k \in Keys : queues[k] = j
                                   THEN Append(items[j], EOS) ELSE items[j]]
    /\ depleted' = TRUE
    /\ elapsed' = 0
    /\ AfterPoll(0)
    /\ UNCHANGED << queue_workers_limit, outcome, streamVars, queues, spawned,
                    jkey, handled, dropped >>

\* asyncio.sleep(worker_exit_timeout / 100) returns, after d periods
DepletionWake ==
    /\ wpc = "deplete"
    /\ \E d \in 1 .. (MaxPolls - elapsed) :
          /\ elapsed' = elapsed + d
          /\ AfterPoll(elapsed + d)
    /\ UNCHANGED << queue_workers_limit, outcome, depleted, streamVars, queues, items,
                    spawned, jkey, handled, dropped >>

StreamError_NoFinally ==
    /\ wpc = "stream"
    /\ wpc' = "done"
    /\ raising' = "error"
    /\ outcome' = "error"
    /\ UNCHANGED << queue_workers_limit, closing, elapsed, depleted, warned,
                    streamVars, queues, items, spawned, localVars, jfailed, poolVars, handled,
                    dropped, forced >>

\* the stream raises: the try block is left for the finally
StreamError ==
    /\ wpc = "stream"
    /\ wpc' = "finally"
    /\ raising' = "error"
    /\ PoolClose
    /\ UNCHANGED << queue_workers_limit, outcome, elapsed, depleted, warned,
                    streamVars, queues, items, spawned, jkey, handled, dropped >>

\* the watcher's task is cancelled while it awaits the stream or the sleep
Cancel ==
    /\ wpc \in {"stream", "deplete"}
    /\ wpc' = "finally"
    /\ raising' = "cancelled"
    /\ PoolClose
    /\ UNCHANGED << queue_workers_limit, outcome, elapsed, depleted, warned,
                    streamVars, queues, items, spawned, jkey, handled, dropped >>

\* the watcher's task is cancelled while it awaits the shielded close(), which goes on
CancelShielded ==
    /\ wpc = "finally"
    /\ wpc' = "done"
    /\ raising' = "cancelled"
    /\ outcome' = "interrupted"
    /\ UNCHANGED << queue_workers_limit, closing, elapsed, depleted, warned,
                    streamVars, queues, items, spawned, localVars, jfailed, poolVars, handled,
                    dropped, forced >>

\* close() has awaited every job
CloseFinish ==
    /\ closing = "gather"
    /\ \A j \in Jobs : jpc[j] \in {"none", "done"}
    /\ closing' = "closed"
    /\ UNCHANGED << watcherVars, streamVars, queues, items, spawned, localVars, jfailed,
                    poolVars, handled, dropped, forced >>

\* the finally is over: the watcher returns, or the exception goes on to the caller
WatcherExit ==
    /\ wpc = "finally"
    /\ closing = "closed"
    /\ wpc' = "done"
    /\ outcome' = IF raising = "none" THEN "returned" ELSE raising
    /\ UNCHANGED << queue_workers_limit, raising, closing, elapsed, depleted, warned,
                    streamVars, queues, items, spawned, localVars, jfailed, poolVars, handled,
                    dropped, forced >>

\* ---- the worker ----

AfterFailure_Requeue(q, e) == << e >> \o q

\* the handler failed: the error is logged, the event is ignored
AfterFailure(q, e) == q

\* the job of the scheduler ends; t is the table it leaves behind and the locals of
\* the coroutine are gone, and with them a queue object that nothing refers to any
\* more.  The scheduler starts the oldest waiting job if the limit allows it.
End(j, how, t) ==
    /\ queues' = t
    /\ items' = [q \in Jobs |->
                   IF \/ \E k \in Keys : t[k] = q
                      \/ \E i \in Jobs \ {j} : jqueue[i] = q
                      THEN items[q] ELSE << >>]
    /\ jexit' = [jexit EXCEPT ![j] = how]
    /\ jqueue' = [jqueue EXCEPT ![j] = NoQueue]
    /\ jevent' = [jevent EXCEPT ![j] = EOS]
    /\ jstop' = [jstop EXCEPT ![j] = FALSE]
    /\ jfailed' = [jfailed EXCEPT ![j] = FALSE]
    /\ got' = [got EXCEPT ![j] = << >>]
    /\ IF pending # << >> /\ ShouldStart(ActiveCount - 1)
          THEN /\ jpc' = [jpc EXCEPT ![j] = "done", ![Head(pending)] = "created"]
               /\ pending' = Tail(pending)
          ELSE /\ jpc' = [jpc EXCEPT ![j] = "done"]
               /\ pending' = pending

\* the worker leaves its try block: the finally removes the key, the job ends
Leave(j, how) == End(j, how, DelKey(queues, jkey[j]))

\* first step of the coroutine: queue = queues[key]; shouldstop = False
WorkerStart(j) ==
    /\ jpc[j] = "created"
    /\ IF queues[jkey[j]] = NoQueue
          THEN End(j, "keyerror", queues)
          ELSE /\ jqueue' = [jqueue EXCEPT ![j] = queues[jkey[j]]]
               /\ jstop' = [jstop EXCEPT ![j] = FALSE]
               /\ jpc' = [jpc EXCEPT ![j] = "idle_wait"]
               /\ UNCHANGED << queues, items, pending, jexit, jevent, got, jfailed >>
    /\ UNCHANGED << watcherVars, streamVars, spawned, jkey, closing, handled,
                    dropped, forced >>

\* wait_for(queue.get(), worker_idle_timeout) returns an item
IdleGet(j) ==
    /\ jpc[j] = "idle_wait"
    /\ items[jqueue[j]] # << >>
    /\ jevent' = [jevent EXCEPT ![j] = Head(items[jqueue[j]])]
    /\ items' = [items EXCEPT ![jqueue[j]] = Tail(@)]
    /\ got' = [got EXCEPT ![j] = << Head(items[jqueue[j]]) >>]
    /\ jpc' = [jpc EXCEPT ![j] = "batch_wait"]
    /\ UNCHANGED << watcherVars, streamVars, queues, spawned, jkey, jqueue, jstop, jfailed,
                    pending, closing, handled, dropped, jexit, forced >>

\* the idle timeout expires on an empty queue; the worker is resumed later
IdleTimer(j) ==
    /\ jpc[j] = "idle_wait"
    /\ items[jqueue[j]] = << >>
    /\ jpc' = [jpc EXCEPT ![j] = "idle_timeout"]
    /\ UNCHANGED << watcherVars, streamVars, queues, items, spawned, jkey, localVars, jfailed,
                    pending, closing, handled, dropped, jexit, forced >>

IdleExit_KeepKey(j) ==
    /\ jpc[j] = "idle_timeout"
    /\ End(j, "idle", queues)
    /\ UNCHANGED << watcherVars, streamVars, spawned, jkey, closing, handled,
                    dropped, forced >>

\* the worker resumes with asyncio.TimeoutError: break, then the finally
IdleExit(j) ==
    /\ jpc[j] = "idle_timeout"
    /\ Leave(j, "idle")
    /\ UNCHANGED << watcherVars, streamVars, spawned, jkey, closing, handled,
                    dropped, forced >>

\* wait_for(queue.get(), worker_batch_window) returns an item
BatchGet(j) ==
    /\ jpc[j] = "batch_wait"
    /\ items[jqueue[j]] # << >>
    /\ LET next == Head(items[jqueue[j]])
       IN  /\ jstop' = [jstop EXCEPT ![j] = (@ \/ next = EOS)]
           /\ jevent' = [jevent EXCEPT ![j] = NextCandidate(@, next)]
           /\ got' = [got EXCEPT ![j] = Append(@, next)]
           /\ dropped' = IF NextCandidate(jevent[j], next) # jevent[j]
                            THEN dropped \cup ({jevent[j]} \ {EOS}) ELSE dropped
    /\ items' = [items EXCEPT ![jqueue[j]] = Tail(@)]
    /\ UNCHANGED << watcherVars, streamVars, queues, spawned, jkey, jpc, jqueue, jfailed,
                    pending, closing, handled, jexit, forced >>

\* wait_for(queue.get(), worker_batch_window) times out on an empty queue: the
\* worker breaks on EOS, else it calls the handler.  (An item put between the
\* expiry and the worker's resumption stays in the queue, as if put after it.)
BatchTimeout(j) ==
    /\ jpc[j] = "batch_wait"
    /\ items[jqueue[j]] = << >>
    /\ IF BreakOnEOS(jevent[j])
          THEN /\ Leave(j, "eos")
               /\ handled' = handled
          ELSE /\ handled' = [handled EXCEPT ![jkey[j]] = Append(@, jevent[j])]
               /\ jpc' = [jpc EXCEPT ![j] = "handler"]
               /\ UNCHANGED << queues, items, pending, jexit, localVars, jfailed >>
    /\ UNCHANGED << watcherVars, streamVars, spawned, jkey, closing, dropped,
                    forced >>

\* the handler returns
HandlerReturn(j) ==
    /\ jpc[j] = "handler"
    /\ IF jstop[j]
          THEN Leave(j, "stop")
          ELSE /\ jpc' = [jpc EXCEPT ![j] = "idle_wait"]
               /\ jfailed' = [jfailed EXCEPT ![j] = FALSE]
               /\ UNCHANGED << queues, items, pending, jexit, localVars >>
    /\ UNCHANGED << watcherVars, streamVars, spawned, jkey, closing, handled,
                    dropped, forced >>

HandlerRaise_Propagates(j) ==
    /\ jpc[j] = "handler"
    /\ Leave(j, "raised")
    /\ UNCHANGED << watcherVars, streamVars, spawned, jkey, closing, handled,
                    dropped, forced >>

\* the handler raises an Exception: it is logged and the loop goes on
HandlerRaise(j) ==
    /\ jpc[j] = "handler"
    /\ IF jstop[j]
          THEN Leave(j, "stop")
          ELSE /\ jpc' = [jpc EXCEPT ![j] = "idle_wait"]
               /\ items' = [items EXCEPT ![jqueue[j]] = AfterFailure(@, jevent[j])]
               /\ jfailed' = [jfailed EXCEPT ![j] = TRUE]
               /\ UNCHANGED << queues, pending, jexit, localVars >>
    /\ UNCHANGED << watcherVars, streamVars, spawned, jkey, closing, handled,
                    dropped, forced >>

\* the handler raises what `except Exception` does not catch: only the finally runs
HandlerFatal(j) ==
    /\ jpc[j] = "handler"
    /\ Leave(j, "fatal")
    /\ UNCHANGED << watcherVars, streamVars, spawned, jkey, closing, handled,
                    dropped, forced >>

\* a cancelled worker resumes with CancelledError inside its try block
WorkerUnwind(j) ==
    /\ jpc[j] \in {"cancelled", "handler_cancelled"}
    /\ Leave(j, "cancelled")
    /\ UNCHANGED << watcherVars, streamVars, spawned, jkey, closing, handled,
                    dropped, forced >>

Next ==
    \/ \E k \in Keys : Dispatch(k)
    \/ StreamEnd
    \/ DepletionWake
    \/ StreamError
    \/ Cancel
    \/ CancelShielded
    \/ CloseFinish
    \/ WatcherExit
    \/ \E j \in Jobs : WorkerStart(j)
    \/ \E j \in Jobs : IdleGet(j)
    \/ \E j \in Jobs : IdleTimer(j)
    \/ \E j \in Jobs : IdleExit(j)
    \/ \E j \in Jobs : BatchGet(j)
    \/ \E j \in Jobs : BatchTimeout(j)
    \/ \E j \in Jobs : HandlerReturn(j)
    \/ \E j \in Jobs : HandlerRaise(j)
    \/ \E j \in Jobs : HandlerFatal(j)
    \/ \E j \in Jobs : WorkerUnwind(j)

Spec == Init /\ [][Next]_vars

\* the event loop resumes what is ready: the sleep of the poll loop returns, a
\* cancelled worker is resumed, close() and the finally complete.  Nothing makes
\* the stream yield or end, a timeout expire first, or the handler return.
FairSpec ==
    /\ Spec
    /\ WF_vars(DepletionWake)
    /\ WF_vars(CloseFinish)
    /\ WF_vars(WatcherExit)
    /\ \A j \in Jobs : WF_vars(WorkerUnwind(j))

TypeOK ==
    /\ queue_workers_limit \in Limits
    /\ wpc \in {"stream", "deplete", "finally", "done"}
    /\ closing \in {"none", "gather", "closed"}
    /\ produced \in 0 .. MaxEvents
    /\ spawned \in 0 .. MaxEvents
    /\ elapsed \in 0 .. MaxPolls
    /\ \A k \in Keys : queues[k] \in 0 .. spawned

\* ---- properties ----

Started(j) == jpc[j] \notin {"none", "done"}
InHandler(j) == jpc[j] \in {"handler", "handler_cancelled"}
Range(s) == {s[i] : i \in 1 .. Len(s)}
NoDuplicates(s) == \A i, k \in 1 .. Len(s) : s[i] = s[k] => i = k

RECURSIVE IsSubseq(_, _)
IsSubseq(s, t) ==
    IF s = << >> THEN TRUE
    ELSE IF t = << >> THEN FALSE
    ELSE IF Head(s) = Head(t) THEN IsSubseq(Tail(s), Tail(t))
    ELSE IsSubseq(s, Tail(t))

\* the items of a pass are real events followed by the marker, and nothing else
EndsWithEOS(s) ==
    /\ Len(s) >= 2
    /\ s[Len(s)] = EOS
    /\ \A i \in 1 .. (Len(s) - 1) : s[i] # EOS

\* C1: per key there is at most one job that has not ended (waiting ones included)
\* and every running worker reads the queue that the table holds for its key; a
\* job is spawned for a key only in a step that found no entry for the key.
C1_OneWorkerPerKey ==
    /\ [](/\ \A i, j \in Jobs :
               Started(i) /\ Started(j) /\ jkey[i] = jkey[j] => i = j
          /\ \A j \in Jobs : jqueue[j] # NoQueue => jqueue[j] = queues[jkey[j]])
    /\ [][\A j \in Jobs : jpc[j] = "none" /\ jpc'[j] # "none"
              => queues[jkey'[j]] = NoQueue /\ queues'[jkey'[j]] = j]_vars

\* a key got a second worker after its first one had ended
C1_Witness ==
    \E i, j \in Jobs :
        /\ i # j /\ jkey[i] = jkey[j]
        /\ jpc[i] = "done" /\ jpc[j] = "idle_wait"

\* C2: the handler never runs for two events of one key at the same time.
C2_HandlerSequentialPerKey ==
    \A i, j \in Jobs : InHandler(i) /\ InHandler(j) /\ jkey[i] = jkey[j] => i = j

\* the handler runs for the second event of a key, and for the other key as well
C2_Witness ==
    \E i, j \in Jobs :
        /\ jpc[i] = "handler" /\ jpc[j] = "handler" /\ jkey[i] # jkey[j]
        /\ Len(handled[jkey[i]]) >= 2

\* C3: per key, the events given to the handler are a subsequence of the events
\* the watcher has put, none of them twice.
C3_HandledInOrder ==
    \A k \in Keys : IsSubseq(handled[k], enqueued[k]) /\ NoDuplicates(handled[k])

\* two workers of one key, one after the other: the first one has ended on its
\* idle timeout, the second one is in the handler with a later event
C3_Witness ==
    \E k \in Keys : \E i, j \in Jobs :
        /\ i # j /\ jkey[i] = k /\ jkey[j] = k
        /\ jexit[i] = "idle" /\ jpc[j] = "handler"
        /\ Len(handled[k]) >= 2

\* an event is on its way: in a queue of the table, or held by a batching worker
InFlight(e) ==
    \/ \E k \in Keys : queues[k] # NoQueue /\ e \in Range(items[queues[k]])
    \/ \E j \in Jobs : jpc[j] = "batch_wait" /\ jevent[j] = e

\* C4: unless a worker was cancelled (or killed by an error of the handler that
\* is no Exception), every event the watcher has put is given to the handler, or
\* was replaced by a newer event of its pass, or is still on its way.
C4_NoEventLost ==
    ~forced /\ (\A j \in Jobs : jexit[j] # "fatal") =>
        \A k \in Keys : \A e \in Range(enqueued[k]) :
            e \in Range(handled[k]) \/ e \in dropped \/ InFlight(e)

\* C5: the pool is closed only after the depletion protocol has run.
C5_DepletionBeforeClose == closing # "none" => depleted

\* C6: the watcher ends only with the pool's close() called; it returns, re-raises
\* the stream's error or the cancellation only when close() is over; and then no
\* job is left running.
C6_PoolClosedOnExit ==
    /\ wpc = "done" => closing # "none"
    /\ outcome \in {"returned", "error", "cancelled"} => closing = "closed"
    /\ closing = "closed" => \A j \in Jobs : ~Started(j)

\* the stream's error has reached the caller, after close() cancelled a worker
C6_Witness ==
    /\ outcome = "error"
    /\ \E j \in Jobs : jexit[j] = "cancelled"

\* C7: never more than queue_workers_limit jobs run; a job spawned at the limit
\* waits, and a waiting job starts only in a step in which a running one ends.
C7_PoolLimit ==
    /\ [](ActiveCount <= queue_workers_limit)
    /\ [][\A j \in Jobs :
             /\ jpc[j] = "none" /\ jpc'[j] # "none"
                  => (jpc'[j] = "pending" <=> ActiveCount >= queue_workers_limit)
             /\ jpc[j] = "pending" /\ jpc'[j] = "created"
                  => \E i \in Jobs : Live(i) /\ jpc'[i] = "done"]_vars

\* the pool is at its limit of one: the job of the other key was accepted, has
\* not started, and its queue has taken a second event meanwhile
C7_Witness ==
    /\ queue_workers_limit = 1
    /\ ActiveCount = 1
    /\ \E j \in Jobs :
          /\ jpc[j] = "pending"
          /\ queues[jkey[j]] = j
          /\ Len(items[j]) >= 2

\* C8: a job that ends, on whatever path, leaves no entry for its key.
C8_KeyAbsentAfterExit ==
    [][\A j \in Jobs : Started(j) /\ jpc'[j] = "done"
          => queues'[jkey[j]] = NoQueue]_vars

\* C9: every key of the table has a job that has not ended.
C9_QueueHasWorker ==
    \A k \in Keys : queues[k] # NoQueue
        => \E j \in Jobs : jkey[j] = k /\ Started(j)

\* C10: a pass that received real events and then the marker keeps the last real
\* event, calls the handler with it when the batch window is over, and the worker
\* ends when that call is over, without going back to wait.
C10_LastEventBeforeEOS ==
    /\ [](\A j \in Jobs : EndsWithEOS(got[j]) =>
             /\ jstop[j]
             /\ jevent[j] = got[j][Len(got[j]) - 1]
             /\ jpc[j] = "handler" =>
                  handled[jkey[j]][Len(handled[jkey[j]])] = jevent[j])
    /\ [][\A j \in Jobs : EndsWithEOS(got[j]) =>
             /\ jpc[j] = "batch_wait" /\ jpc'[j] \notin {"batch_wait", "cancelled"}
                  => /\ jpc'[j] = "handler"
                     /\ handled'[jkey[j]] = Append(handled[jkey[j]], jevent[j])
             /\ jpc[j] = "handler" /\ jpc'[j] # "handler"
                  => /\ jpc'[j] \in {"done", "handler_cancelled"}
                     /\ handled' = handled]_vars

\* the handler runs with the second of two batched events, the marker came third
C10_Witness ==
    \E j \in Jobs :
        /\ jpc[j] = "handler"
        /\ Len(got[j]) = 3 /\ EndsWithEOS(got[j])
        /\ jevent[j] = got[j][2]

\* the items of a pass are real events only
AllReal(s) == Len(s) >= 1 /\ \A i \in 1 .. Len(s) : s[i] # EOS

\* C11: the handler is never called with the marker; a worker that holds the
\* marker when its batch window is over ends without a call of the handler.
C11_HandlerNeverGetsEOS ==
    /\ [](\A k \in Keys : EOS \notin Range(handled[k]))
    /\ [][\A j \in Jobs :
             jpc[j] = "batch_wait" /\ jevent[j] = EOS
                 /\ jpc'[j] \notin {"batch_wait", "cancelled"}
             => jpc'[j] = "done" /\ jexit'[j] = "eos" /\ handled' = handled]_vars

\* a worker that had handled an event received the marker alone and has ended
C11_Witness ==
    \E j \in Jobs : jexit[j] = "eos" /\ handled[jkey[j]] # << >>

\* C12: a pass of real events only keeps the newest one; when the batch window
\* is over the handler is called once, with that one, and the events it replaced
\* are in no call of the handler, then or later.
C12_BatchKeepsLast ==
    /\ [](/\ \A j \in Jobs :
               jpc[j] \in {"batch_wait", "handler"} /\ AllReal(got[j]) =>
                  /\ jevent[j] = got[j][Len(got[j])]
                  /\ \A i \in 1 .. (Len(got[j]) - 1) : got[j][i] \in dropped
          /\ \A k \in Keys : Range(handled[k]) \cap dropped = {})
    /\ [][\A j \in Jobs :
             jpc[j] = "batch_wait" /\ AllReal(got[j])
                 /\ jpc'[j] \notin {"batch_wait", "cancelled"}
             => /\ jpc'[j] = "handler"
                /\ handled' = [handled EXCEPT ![jkey[j]] =
                                  Append(@, got[j][Len(got[j])])]]_vars

\* the handler runs with the third of three events batched in one pass
C12_Witness ==
    \E j \in Jobs :
        /\ jpc[j] = "handler"
        /\ Len(got[j]) = 3 /\ AllReal(got[j])
        /\ handled[jkey[j]] = << got[j][3] >>

\* C13: a call of the handler that raises an Exception, with no stop requested,
\* leaves its worker waiting for the next event with the key's queue in the table,
\* and changes neither another job nor the watcher.
C13_HandlerErrorContained ==
    /\ [](\A j \in Jobs : jfailed[j] =>
             /\ Started(j)
             /\ jqueue[j] # NoQueue /\ queues[jkey[j]] = jqueue[j])
    /\ [][\A j \in Jobs : HandlerRaise(j) /\ ~jstop[j] =>
             /\ jpc'[j] = "idle_wait"
             /\ queues' = queues
             /\ \A i \in Jobs \ {j} : jpc'[i] = jpc[i]
             /\ wpc' = wpc /\ raising' = raising /\ outcome' = outcome]_vars

\* the worker whose last call of the handler raised is in the handler with a later
\* event of its key, while the handler runs for the other key too
C13_Witness ==
    \E i, j \in Jobs :
        /\ jfailed[j] /\ jpc[j] = "handler" /\ Len(handled[jkey[j]]) >= 2
        /\ jkey[i] # jkey[j] /\ jpc[i] = "handler"

\* C14: once depletion has started the watcher ends, whatever the handlers do; the
\* poll loop never sleeps with the exit timeout used up, and when it is left every
\* job that has not ended is cancelled.
C14_ShutdownBounded ==
    /\ [](wpc = "deplete" => elapsed < MaxPolls)
    /\ [][wpc = "deplete" /\ wpc' # "deplete" =>
             /\ closing' = "gather"
             /\ \A j \in Jobs :
                   jpc'[j] \in {"none", "done", "cancelled", "handler_cancelled"}]_vars
    /\ (depleted ~> wpc = "done")

\* the exit timeout has passed with a handler still running: the poll loop was
\* left without an exception and close() has cancelled the worker in its handler
C14_Witness ==
    /\ depleted /\ raising = "none" /\ wpc = "finally"
    /\ elapsed = MaxPolls
    /\ \E j \in Jobs : jpc[j] = "handler_cancelled"

\* C15: the step that leaves the poll loop logs the warning exactly for a non-empty
\* table, with exactly the keys of the table; when every worker has ended by then,
\* the table is empty, nothing is logged and close() cancels no job.  No other
\* step logs the warning.
C15_LeftoverWarning ==
    /\ [][wpc # "finally" /\ wpc' = "finally" /\ raising' = "none" =>
             /\ warned' = TableKeys
             /\ (\A j \in Jobs : jpc[j] \in {"none", "done"}) =>
                   /\ TableKeys = {}
                   /\ warned' = {}
                   /\ jpc' = jpc /\ jexit' = jexit /\ forced' = forced]_vars
    /\ [][warned' # warned => wpc # "finally" /\ wpc' = "finally" /\ raising' = "none"]_vars

\* the warning names one key of two: the worker of the other key ended on its marker
C15_Witness ==
    /\ wpc = "finally" /\ raising = "none"
    /\ \E k \in Keys : warned = {k}
    /\ \E j \in Jobs : jexit[j] = "eos" /\ jkey[j] \notin warned

\* C16: a worker resumed after its idle timeout ends for good, with its key out of
\* the table and without a call of the handler; a worker whose batch window
\* times out on a real event calls the handler and stays, its key in the table.
C16_IdleVsBatchTimeout ==
    /\ [][\A j \in Jobs :
             jpc[j] = "idle_timeout" /\ jpc'[j] \notin {"idle_timeout", "cancelled"} =>
                 /\ jpc'[j] = "done" /\ jexit'[j] = "idle"
                 /\ queues'[jkey[j]] = NoQueue
                 /\ handled' = handled]_vars
    /\ [][\A j \in Jobs : jpc[j] = "done" => jpc'[j] = "done"]_vars
    /\ [][\A j \in Jobs :
             jpc[j] = "batch_wait" /\ jevent[j] # EOS
                 /\ jpc'[j] \notin {"batch_wait", "cancelled"} =>
                 /\ jpc'[j] = "handler" /\ jexit'[j] = "none"
                 /\ queues' = queues /\ queues[jkey[j]] = jqueue[j]]_vars

\* a worker has handled an event after a batch timeout and later ended on its
\* idle timeout, while the stream is still being read
C16_Witness ==
    \E j \in Jobs :
        /\ jexit[j] = "idle" /\ wpc = "stream"
        /\ handled[jkey[j]] # << >>
        /\ queues[jkey[j]] = NoQueue

\* every worker is resumed when what it waits for is there: an item, the expiry
\* of its timeout, its cancellation, and the end of its call of the handler.
\* Nothing is assumed of the watcher.
WorkersFair ==
    /\ Spec
    /\ \A j \in Jobs :
          WF_vars(\/ WorkerStart(j)
                  \/ IdleGet(j) \/ IdleTimer(j) \/ IdleExit(j)
                  \/ BatchGet(j) \/ BatchTimeout(j)
                  \/ HandlerReturn(j)
                  \/ WorkerUnwind(j))

\* a step of the worker j on its way to the handler
WorkerStep(j) ==
    \/ WorkerStart(j)
    \/ IdleGet(j) \/ IdleTimer(j) \/ IdleExit(j)
    \/ BatchGet(j) \/ BatchTimeout(j)

\* C17: with a limit of at least 2, while the handler runs for one key the worker of
\* the other key is not kept waiting by the scheduler and, until it is in the
\* handler itself, always has a step it can take.
C17_HandlersOverlap ==
    \A i, j \in Jobs :
        /\ queue_workers_limit >= 2
        /\ jpc[i] = "handler"
        /\ jpc[j] \notin {"none", "done"} /\ jkey[j] # jkey[i]
        => /\ jpc[j] # "pending"
           /\ jpc[j] \in {"created", "idle_wait", "idle_timeout", "batch_wait"}
                 => ENABLED WorkerStep(j)

\* one event for each of the two keys, and the handler runs for both
C17_Witness ==
    /\ queue_workers_limit >= 2
    /\ \E i, j \in Jobs :
          /\ jkey[i] = "a" /\ jkey[j] = "b"
          /\ jpc[i] = "handler" /\ jpc[j] = "handler"
          /\ Len(enqueued["a"]) = 1 /\ Len(enqueued["b"]) = 1
          /\ handled["a"] = enqueued["a"] /\ handled["b"] = enqueued["b"]

\* C18: the watcher can take the next event of the stream whatever the state of
\* the pool; a spawn at the limit leaves the job waiting and the watcher reading;
\* an event for the key of a waiting job goes onto that job's queue; a job that
\* ends hands its slot to the oldest waiting job, and a waiting job gets to call
\* the handler unless the pool is closed first.
C18_LimitDoesNotBlockStream ==
    /\ [](wpc = "stream" /\ produced < MaxEvents => \A k \in Keys : ENABLED Dispatch(k))
    /\ [][\A j \in Jobs :
             jpc[j] = "none" /\ jpc'[j] = "pending" =>
                 /\ wpc' = "stream"
                 /\ queues'[jkey'[j]] = j /\ items'[j] = << produced' >>]_vars
    /\ [][\A j \in Jobs :
             jpc[j] = "pending" /\ enqueued'[jkey[j]] # enqueued[jkey[j]] =>
                 /\ wpc' = "stream" /\ jpc'[j] = "pending"
                 /\ items'[j] = Append(items[j], produced')]_vars
    /\ [][\A i \in Jobs :
             Live(i) /\ jpc'[i] = "done" /\ closing' = "none" /\ pending # << >> =>
                 jpc'[Head(pending)] = "created"]_vars
    /\ \A j \in Jobs : jpc[j] = "pending" ~> (jpc[j] = "handler" \/ closing # "none")

\* limit 1: the job of "b" was spawned while the job of "a" was running, the
\* watcher has put another event for "a" since, and now that the job of "a" has
\* ended the handler runs for "b"
C18_Witness ==
    /\ queue_workers_limit = 1 /\ spawned = 2
    /\ jkey[1] = "a" /\ jkey[2] = "b"
    /\ enqueued["a"] = << 1, 3 >> /\ handled["a"] = << 1, 3 >>
    /\ jpc[1] = "done" /\ jpc[2] = "handler"

MarkerLast(s) == \A n \in 1 .. Len(s) : s[n] = EOS => n = Len(s)

\* C20: a queue holds the marker at most once, as its last item; what a worker has
\* read in a pass has the marker last, with nothing left in its queue behind it;
\* once depletion has started the watcher takes no event, puts no real event,
\* and adds no queue and no job.
C20_MarkerIsLast ==
    /\ [](\A q \in Jobs : MarkerLast(items[q]))
    /\ [](\A j \in Jobs :
             /\ MarkerLast(got[j])
             /\ EOS \in Range(got[j]) => items[jqueue[j]] = << >>)
    /\ [][depleted =>
             /\ produced' = produced /\ enqueued' = enqueued /\ spawned' = spawned
             /\ \A k \in Keys : queues'[k] \in {queues[k], NoQueue}
             /\ \A q \in Jobs : Len(items'[q]) <= Len(items[q])]_vars

\* the markers are put: a queue that nobody has read yet holds two events and
\* then the marker
C20_Witness ==
    /\ depleted
    /\ \E q \in Jobs : Len(items[q]) = 3 /\ items[q][3] = EOS /\ AllReal(SubSeq(items[q], 1, 2))

====
